---- MODULE Spec2Model ----
(***************************************************************************)
(* Model of netlify/functions/seatsio-handler.js: the serverless handler   *)
(* that issues seats.io hold tokens (createHoldToken) and books a seat     *)
(* after a GoHighLevel webhook (bookSeat).                                  *)
(*                                                                         *)
(* A JavaScript string is a sequence of one-character strings, so that     *)
(* concatenation, comparison, JSON text and base64 are computed character  *)
(* by character.  A JavaScript value is a record [type, str, items]:       *)
(* str holds the characters of a string, number or boolean; items holds    *)
(* the <<key, value>> pairs of an object or the elements of an array.      *)
(***************************************************************************)
EXTENDS Integers, Sequences, FiniteSets, TLC

\* String literals of the source, character by character.
S_OPTIONS == <<"O","P","T","I","O","N","S">>
S_POST == <<"P","O","S","T">>
S_ACAO == <<"A","c","c","e","s","s","-","C","o","n","t","r","o","l","-","A","l","l","o","w","-","O","r","i","g","i","n">>
S_STAR == <<"*">>
S_ACAH == <<"A","c","c","e","s","s","-","C","o","n","t","r","o","l","-","A","l","l","o","w","-","H","e","a","d","e","r","s">>
S_CT_AUTH == <<"C","o","n","t","e","n","t","-","T","y","p","e",","," ","A","u","t","h","o","r","i","z","a","t","i","o","n">>
S_ACAM == <<"A","c","c","e","s","s","-","C","o","n","t","r","o","l","-","A","l","l","o","w","-","M","e","t","h","o","d","s">>
S_POST_OPTIONS == <<"P","O","S","T",","," ","O","P","T","I","O","N","S">>
S_action == <<"a","c","t","i","o","n">>
S_createHoldToken == <<"c","r","e","a","t","e","H","o","l","d","T","o","k","e","n">>
S_bookSeat == <<"b","o","o","k","S","e","a","t">>
S_seatId == <<"s","e","a","t","I","d">>
S_holdToken == <<"h","o","l","d","T","o","k","e","n">>
S_eventKey == <<"e","v","e","n","t","K","e","y">>
S_success == <<"s","u","c","c","e","s","s">>
S_message == <<"m","e","s","s","a","g","e">>
S_error == <<"e","r","r","o","r">>
S_objects == <<"o","b","j","e","c","t","s">>
S_authorization == <<"a","u","t","h","o","r","i","z","a","t","i","o","n">>
S_Authorization == <<"A","u","t","h","o","r","i","z","a","t","i","o","n">>
S_ContentType == <<"C","o","n","t","e","n","t","-","T","y","p","e">>
S_application_json == <<"a","p","p","l","i","c","a","t","i","o","n","/","j","s","o","n">>
S_Bearer == <<"B","e","a","r","e","r"," ">>
S_Basic == <<"B","a","s","i","c"," ">>
S_Unauthorized == <<"U","n","a","u","t","h","o","r","i","z","e","d">>
S_HoldTokensUrl == <<"h","t","t","p","s",":","/","/","a","p","i",".","s","e","a","t","s",".","i","o","/","h","o","l","d","-","t","o","k","e","n","s">>
S_EventsUrl == <<"h","t","t","p","s",":","/","/","a","p","i",".","s","e","a","t","s",".","i","o","/","e","v","e","n","t","s","/">>
S_ActionsBook == <<"/","a","c","t","i","o","n","s","/","b","o","o","k">>
S_HoldApiError == <<"s","e","a","t","s",".","i","o"," ","A","P","I"," ","e","r","r","o","r",":"," ">>
S_BookApiError == <<"s","e","a","t","s",".","i","o"," ","A","P","I"," ","e","r","r","o","r"," ","d","u","r","i","n","g"," ","b","o","o","k","i","n","g",":"," ">>
S_MissingParams == <<"M","i","s","s","i","n","g"," ","r","e","q","u","i","r","e","d"," ","p","a","r","a","m","e","t","e","r","s",":"," ","s","e","a","t","I","d"," ","o","r"," ","h","o","l","d","T","o","k","e","n",".">>
S_InvalidAction == <<"I","n","v","a","l","i","d"," ","a","c","t","i","o","n"," ","s","p","e","c","i","f","i","e","d"," ","i","n"," ","r","e","q","u","e","s","t"," ","b","o","d","y",".">>
S_Seat == <<"S","e","a","t"," ">>
S_booked == <<" ","b","o","o","k","e","d"," ","s","u","c","c","e","s","s","f","u","l","l","y",".">>
S_undefined == <<"u","n","d","e","f","i","n","e","d">>
S_null == <<"n","u","l","l">>
S_true == <<"t","r","u","e">>
S_false == <<"f","a","l","s","e">>
S_objectObject == <<"[","o","b","j","e","c","t"," ","O","b","j","e","c","t","]">>
S_emptyObject == <<"{","}">>
S_JsonSyntaxError == <<"U","n","e","x","p","e","c","t","e","d"," ","t","o","k","e","n"," ","i","n"," ","J","S","O","N">>
S_ReadActionOfNull == <<"C","a","n","n","o","t"," ","r","e","a","d"," ","p","r","o","p","e","r","t","i","e","s"," ","o","f"," ","n","u","l","l"," ","(","r","e","a","d","i","n","g"," ","'","a","c","t","i","o","n","'",")">>
S_ReadAuthOfUndefined == <<"C","a","n","n","o","t"," ","r","e","a","d"," ","p","r","o","p","e","r","t","i","e","s"," ","o","f"," ","u","n","d","e","f","i","n","e","d"," ","(","r","e","a","d","i","n","g"," ","'","a","u","t","h","o","r","i","z","a","t","i","o","n","'",")">>
S_DestructureNull == <<"C","a","n","n","o","t"," ","d","e","s","t","r","u","c","t","u","r","e"," ","p","r","o","p","e","r","t","y"," ","'","h","o","l","d","T","o","k","e","n","'"," ","o","f"," ","n","u","l","l">>
S_FetchFailed == <<"f","e","t","c","h"," ","f","a","i","l","e","d">>

Ascii == <<" ","!","\"","#","$","%","&","'","(",")","*","+",",","-",".","/","0","1","2","3","4","5","6","7","8","9",":",";","<","=",">","?","@","A","B","C","D","E","F","G","H","I","J","K","L","M","N","O","P","Q","R","S","T","U","V","W","X","Y","Z","[","\\","]","^","_","GRAVE","a","b","c","d","e","f","g","h","i","j","k","l","m","n","o","p","q","r","s","t","u","v","w","x","y","z","{","|","}","~">>
Base64Alphabet == <<"A","B","C","D","E","F","G","H","I","J","K","L","M","N","O","P","Q","R","S","T","U","V","W","X","Y","Z","a","b","c","d","e","f","g","h","i","j","k","l","m","n","o","p","q","r","s","t","u","v","w","x","y","z","0","1","2","3","4","5","6","7","8","9","+","/">>

\* ------------------------------------------------------------------------
\* JavaScript values

Undefined == [type |-> "undefined", str |-> <<>>, items |-> <<>>]

Null == [type |-> "null", str |-> <<>>, items |-> <<>>]

Str(s) == [type |-> "string", str |-> s, items |-> <<>>]

Num(digits) == [type |-> "number", str |-> digits, items |-> <<>>]

Bool(b) == [type |-> "boolean", str |-> IF b THEN S_true ELSE S_false, items |-> <<>>]

Obj(pairs) == [type |-> "object", str |-> <<>>, items |-> pairs]

Arr(elems) == [type |-> "array", str |-> <<>>, items |-> elems]

\* The conversion a template literal or string concatenation applies.
ToStr(v) ==
  CASE v.type = "undefined" -> S_undefined
    [] v.type = "null" -> S_null
    [] v.type = "object" -> S_objectObject
    [] v.type = "array" -> IF v.items = <<>> THEN <<>> ELSE S_objectObject
    [] OTHER -> v.str

\* The truthiness test of !x and x || y.
Truthy(v) ==
  CASE v.type \in {"undefined", "null"} -> FALSE
    [] v.type = "string" -> v.str # <<>>
    [] v.type = "number" -> v.str # <<"0">>
    [] v.type = "boolean" -> v.str = S_true
    [] OTHER -> TRUE

\* A variant without the default.
OrMut(a, b) == a

\* a || b
Or(a, b) == IF Truthy(a) THEN a ELSE b

\* o.key for a value that is neither null nor undefined: the last pair with
\* that key of an object, undefined on anything else.
GetProp(o, key) ==
  IF o.type = "object" /\ \E i \in 1..Len(o.items) : o.items[i][1] = key
  THEN LET i == CHOOSE j \in 1..Len(o.items) :
                  /\ o.items[j][1] = key
                  /\ \A k \in (j+1)..Len(o.items) : o.items[k][1] # key
       IN o.items[i][2]
  ELSE Undefined

\* Property access on null or undefined throws a TypeError.
Nullish(v) == v.type \in {"undefined", "null"}

\* An object's own keys.
Keys(o) == {o.items[i][1] : i \in 1..Len(o.items)}

\* ------------------------------------------------------------------------
\* JSON.stringify

\* The characters of s, as a set.
Range(s) == {s[i] : i \in 1..Len(s)}

\* A quote or a backslash is written with a backslash before it.
RECURSIVE Escape(_)
Escape(s) ==
  IF Range(s) \cap {"\"", "\\"} = {} THEN s
  ELSE IF Len(s) = 1 THEN <<"\\", s[1]>>
  ELSE LET m == Len(s) \div 2
       IN Escape(SubSeq(s, 1, m)) \o Escape(SubSeq(s, m + 1, Len(s)))

Quote(s) == <<"\"">> \o Escape(s) \o <<"\"">>

RECURSIVE Stringify(_)
RECURSIVE StringifyMembers(_, _)
RECURSIVE StringifyElements(_, _)

\* The members of an object literal in order; a member whose value is
\* undefined is left out.
StringifyMembers(pairs, first) ==
  IF pairs = <<>> THEN <<>>
  ELSE IF Head(pairs)[2].type = "undefined" THEN StringifyMembers(Tail(pairs), first)
  ELSE (IF first THEN <<>> ELSE <<",">>)
         \o Quote(Head(pairs)[1]) \o <<":">> \o Stringify(Head(pairs)[2])
         \o StringifyMembers(Tail(pairs), FALSE)

\* The elements of an array; an undefined element is written as null.
StringifyElements(elems, first) ==
  IF elems = <<>> THEN <<>>
  ELSE (IF first THEN <<>> ELSE <<",">>)
         \o (IF Head(elems).type = "undefined" THEN S_null ELSE Stringify(Head(elems)))
         \o StringifyElements(Tail(elems), FALSE)

Stringify(v) ==
  CASE v.type = "string" -> Quote(v.str)
    [] v.type = "object" -> <<"{">> \o StringifyMembers(v.items, TRUE) \o <<"}">>
    [] v.type = "array" -> <<"[">> \o StringifyElements(v.items, TRUE) \o <<"]">>
    [] v.type = "null" -> S_null
    [] OTHER -> v.str

\* ------------------------------------------------------------------------
\* JSON.parse (objects, arrays, strings with \" and \\ escapes, unsigned
\* integers, true, false, null; blanks between tokens)

Digits == {"0", "1", "2", "3", "4", "5", "6", "7", "8", "9"}

ParseFail == [ok |-> FALSE, val |-> Undefined, rest |-> <<>>]

ParseOk(v, rest) == [ok |-> TRUE, val |-> v, rest |-> rest]

RECURSIVE SkipWs(_)
SkipWs(s) == IF s # <<>> /\ Head(s) = " " THEN SkipWs(Tail(s)) ELSE s

StartsWith(s, p) == Len(s) >= Len(p) /\ SubSeq(s, 1, Len(p)) = p

Drop(s, n) == SubSeq(s, n + 1, Len(s))

\* The number of backslashes that stand right before position i.
RECURSIVE RunBefore(_, _)
RunBefore(s, i) == IF i > 1 /\ s[i - 1] = "\\" THEN 1 + RunBefore(s, i - 1) ELSE 0

\* The text between the quotes with its escapes undone; \" and \\ are the
\* escapes read, any other is refused.
RECURSIVE Unescape(_)
Unescape(c) ==
  IF "\\" \notin Range(c) THEN [ok |-> TRUE, str |-> c]
  ELSE IF Len(c) = 1 THEN [ok |-> FALSE, str |-> <<>>]
  ELSE IF Len(c) = 2 /\ c[1] = "\\"
       THEN [ok |-> c[2] \in {"\"", "\\"}, str |-> <<c[2]>>]
  ELSE LET h == Len(c) \div 2
           m == IF c[h] = "\\" /\ RunBefore(c, h) % 2 = 0 THEN h + 1 ELSE h
           l == Unescape(SubSeq(c, 1, m))
           r == Unescape(SubSeq(c, m + 1, Len(c)))
       IN [ok |-> l.ok /\ r.ok, str |-> l.str \o r.str]

\* A string literal after its opening quote: it ends at the first quote
\* that no backslash escapes.
ScanString(s) ==
  LET closing == {i \in 1..Len(s) : s[i] = "\"" /\ RunBefore(s, i) % 2 = 0} IN
    IF closing = {} THEN ParseFail
    ELSE LET end == CHOOSE i \in closing : \A j \in closing : i <= j
             u == Unescape(SubSeq(s, 1, end - 1))
         IN IF u.ok THEN ParseOk(Str(u.str), Drop(s, end)) ELSE ParseFail

RECURSIVE ScanDigits(_, _)
ScanDigits(s, acc) ==
  IF s # <<>> /\ Head(s) \in Digits THEN ScanDigits(Tail(s), Append(acc, Head(s)))
  ELSE ParseOk(Num(acc), s)

\* A later member with the same key replaces the earlier one.
SetProp(pairs, key, v) ==
  IF \E i \in 1..Len(pairs) : pairs[i][1] = key
  THEN [i \in 1..Len(pairs) |-> IF pairs[i][1] = key THEN <<key, v>> ELSE pairs[i]]
  ELSE Append(pairs, <<key, v>>)

RECURSIVE ParseValue(_)
RECURSIVE ParseMembers(_, _)
RECURSIVE ParseElements(_, _)

ParseMembers(s, acc) ==
  IF s = <<>> \/ Head(s) # "\"" THEN ParseFail
  ELSE LET k == ScanString(Tail(s)) IN
    IF ~k.ok THEN ParseFail
    ELSE LET c == SkipWs(k.rest) IN
      IF c = <<>> \/ Head(c) # ":" THEN ParseFail
      ELSE LET v == ParseValue(Tail(c)) IN
        IF ~v.ok THEN ParseFail
        ELSE LET d == SkipWs(v.rest)
                 acc2 == SetProp(acc, k.val.str, v.val)
             IN IF d = <<>> THEN ParseFail
                ELSE IF Head(d) = "}" THEN ParseOk(Obj(acc2), Tail(d))
                ELSE IF Head(d) = "," THEN ParseMembers(SkipWs(Tail(d)), acc2)
                ELSE ParseFail

ParseElements(s, acc) ==
  LET v == ParseValue(s) IN
    IF ~v.ok THEN ParseFail
    ELSE LET d == SkipWs(v.rest)
             acc2 == Append(acc, v.val)
         IN IF d = <<>> THEN ParseFail
            ELSE IF Head(d) = "]" THEN ParseOk(Arr(acc2), Tail(d))
            ELSE IF Head(d) = "," THEN ParseElements(Tail(d), acc2)
            ELSE ParseFail

ParseValue(s0) ==
  LET s == SkipWs(s0) IN
    IF s = <<>> THEN ParseFail
    ELSE IF Head(s) = "\"" THEN ScanString(Tail(s))
    ELSE IF StartsWith(s, S_null) THEN ParseOk(Null, Drop(s, 4))
    ELSE IF StartsWith(s, S_true) THEN ParseOk(Bool(TRUE), Drop(s, 4))
    ELSE IF StartsWith(s, S_false) THEN ParseOk(Bool(FALSE), Drop(s, 5))
    ELSE IF Head(s) = "0" THEN ParseOk(Num(<<"0">>), Tail(s))
    ELSE IF Head(s) \in Digits THEN ScanDigits(s, <<>>)
    ELSE IF Head(s) = "{"
         THEN LET t == SkipWs(Tail(s)) IN
              IF t # <<>> /\ Head(t) = "}" THEN ParseOk(Obj(<<>>), Tail(t))
              ELSE ParseMembers(t, <<>>)
    ELSE IF Head(s) = "["
         THEN LET t == SkipWs(Tail(s)) IN
              IF t # <<>> /\ Head(t) = "]" THEN ParseOk(Arr(<<>>), Tail(t))
              ELSE ParseElements(t, <<>>)
    ELSE ParseFail

\* JSON.parse(text): ok is FALSE where JSON.parse throws a SyntaxError.
JSONparse(text) ==
  LET r == ParseValue(text) IN
    IF r.ok /\ SkipWs(r.rest) = <<>> THEN [ok |-> TRUE, val |-> r.val]
    ELSE [ok |-> FALSE, val |-> Undefined]

\* ------------------------------------------------------------------------
\* btoa: base64 of a string of characters below U+0100
\* (the keys of the model are ASCII, for which btoa never throws)

CharCode(c) == 31 + CHOOSE i \in 1..Len(Ascii) : Ascii[i] = c

B64(n) == Base64Alphabet[n + 1]

RECURSIVE Encode(_)
Encode(codes) ==
  IF codes = <<>> THEN <<>>
  ELSE IF Len(codes) = 1
       THEN <<B64(codes[1] \div 4), B64((codes[1] % 4) * 16), "=", "=">>
  ELSE IF Len(codes) = 2
       THEN <<B64(codes[1] \div 4),
              B64((codes[1] % 4) * 16 + codes[2] \div 16),
              B64((codes[2] % 16) * 4), "=">>
  ELSE <<B64(codes[1] \div 4),
         B64((codes[1] % 4) * 16 + codes[2] \div 16),
         B64((codes[2] % 16) * 4 + codes[3] \div 64),
         B64(codes[3] % 64)>> \o Encode(Drop(codes, 3))

btoa(s) == Encode([i \in 1..Len(s) |-> CharCode(s[i])])

\* ------------------------------------------------------------------------
\* Bounds and inputs

\* Invocations of the handler in one run of the model.
MaxInvocations == 2

\* process.env: each variable is unset (undefined) or a string.
SecretKeys == {Undefined, Str(<<"k", "1">>)}

EventKeys == {Undefined, Str(<<"e", "v">>)}

WebhookSecrets == {Undefined, Str(<<"S", "x">>)}

Envs ==
  [SEATSIO_SECRET_KEY : SecretKeys, SEATSIO_EVENT_KEY : EventKeys,
   GHL_WEBHOOK_SECRET : WebhookSecrets]

Methods == {Str(S_OPTIONS), Str(S_POST), Str(<<"G", "E", "T">>)}

\* Values of the authorization header: the exact credential for the secret
\* "Sx", then variants in case, blanks, scheme and secret.
AuthValues ==
  { S_Bearer \o <<"S", "x">>,
    <<"b", "e", "a", "r", "e", "r", " ", "S", "x">>,
    S_Bearer \o <<"s", "x">>,
    S_Bearer \o <<"S", "x", " ">>,
    <<" ">> \o S_Bearer \o <<"S", "x">>,
    S_Basic \o <<"S", "x">>,
    <<"S", "x">>,
    S_Bearer,
    S_Bearer \o S_undefined }

\* event.headers: no headers object, or an object of lower-cased header
\* names (as the platform delivers them) with or without authorization.
HeaderSets ==
  {Undefined, Obj(<<>>)}
    \cup {Obj(<< <<S_authorization, Str(a)>> >>) : a \in AuthValues}

SeatIds == {Undefined, Str(<<>>), Str(<<"A", "\"", "1">>), Num(<<"7">>)}

HoldTokens == {Undefined, Str(<<>>), Str(<<"h", "t">>)}

OtherActions ==
  {Undefined, Null, Num(<<"1">>), Str(<<>>), Str(<<"c", "a", "n", "c", "e", "l", "S", "e", "a", "t">>),
   Str(<<"B", "o", "o", "k", "S", "e", "a", "t">>)}

\* Request bodies that are JSON objects, as a client serialises them.
ObjectBodies ==
  {Stringify(Obj(<< <<S_action, a>> >>)) : a \in OtherActions \cup {Str(S_createHoldToken)}}
    \cup {Stringify(Obj(<< <<S_action, Str(S_bookSeat)>>, <<S_seatId, s>>, <<S_holdToken, h>> >>)) :
            s \in SeatIds, h \in HoldTokens}

\* Request bodies that are JSON but not objects.
ScalarBodies == {S_null, <<"7">>, Quote(S_bookSeat), <<"[", "]">>}

\* Request bodies that are not JSON.
MalformedBodies ==
  { <<"{">>,
    <<"{", "\"", "a", "c", "t", "i", "o", "n", "\"", ":", "\"", "b", "o", "o", "k", "S", "e", "a", "t", "\"", ",", "}">>,
    <<"a", "c", "t", "i", "o", "n", "=", "b", "o", "o", "k", "S", "e", "a", "t">> }

\* event.body: absent, null, empty, or a text.
Bodies ==
  {Undefined, Null, Str(<<>>)}
    \cup {Str(t) : t \in ObjectBodies \cup ScalarBodies \cup MalformedBodies}

Events == [httpMethod : Methods, headers : HeaderSets, body : Bodies]

\* What the upstream API can answer: the fetch promise rejects, or it
\* fulfils with a status and a body text.
UpstreamTexts ==
  { <<>>,
    <<"<", "h", "t", "m", "l", ">">>,
    S_null,
    S_emptyObject,
    Stringify(Obj(<< <<S_holdToken, Str(<<"T", "\"", "9">>)>>,
                     <<<<"e", "x", "p", "i", "r", "e", "s">>, Num(<<"9", "0", "0">>)>> >>)) }

UpstreamStatuses == {200, 204, 400, 503}

Outcomes ==
  {[settled |-> "rejected", status |-> 0, text |-> <<>>]}
    \cup [settled : {"fulfilled"}, status : UpstreamStatuses, text : UpstreamTexts]

\* ------------------------------------------------------------------------
\* The handler

Response(statusCode, headers, body) ==
  [statusCode |-> statusCode, headers |-> headers, body |-> body]

corsHeaders ==
  Obj(<< <<S_ACAO, Str(S_STAR)>>, <<S_ACAH, Str(S_CT_AUTH)>>,
         <<S_ACAM, Str(S_POST_OPTIONS)>> >>)

\* A variant that compares with the lower-case method name.
IsPreflightMut(ev) == ev.httpMethod = Str(<<"o", "p", "t", "i", "o", "n", "s">>)

IsPreflight(ev) == ev.httpMethod = Str(S_OPTIONS)

PreflightResponse == Response(204, corsHeaders, <<>>)

\* `Basic ${btoa(SEATSIO_SECRET_KEY + ':')}`
BasicAuth(key) == S_Basic \o btoa(ToStr(key) \o <<":">>)

\* The first argument pair of fetch in createHoldToken.
HoldTokenRequest(e) ==
  [url |-> S_HoldTokensUrl, method |-> S_POST,
   headers |-> Obj(<< <<S_Authorization, Str(BasicAuth(e.SEATSIO_SECRET_KEY))>> >>),
   body |-> Undefined]

\* A variant that sends the seat itself, not a list of one seat.
BookRequestMut(e, seatId, holdToken) ==
  [url |-> S_EventsUrl \o ToStr(e.SEATSIO_EVENT_KEY) \o S_ActionsBook,
   method |-> S_POST,
   headers |-> Obj(<< <<S_ContentType, Str(S_application_json)>>,
                      <<S_Authorization, Str(BasicAuth(e.SEATSIO_SECRET_KEY))>> >>),
   body |-> Str(Stringify(Obj(<< <<S_objects, seatId>>,
                                 <<S_holdToken, holdToken>> >>)))]

\* The argument pair of fetch in bookSeat.
BookRequest(e, seatId, holdToken) ==
  [url |-> S_EventsUrl \o ToStr(e.SEATSIO_EVENT_KEY) \o S_ActionsBook,
   method |-> S_POST,
   headers |-> Obj(<< <<S_ContentType, Str(S_application_json)>>,
                      <<S_Authorization, Str(BasicAuth(e.SEATSIO_SECRET_KEY))>> >>),
   body |-> Str(Stringify(Obj(<< <<S_objects, Arr(<<seatId>>)>>,
                                 <<S_holdToken, holdToken>> >>)))]

\* A variant that only looks for the Bearer scheme.
UnauthorizedMut(authHeader, secret) ==
  ~(authHeader.type = "string" /\ StartsWith(authHeader.str, S_Bearer))

\* authHeader !== `Bearer ${GHL_WEBHOOK_SECRET}`
Unauthorized(authHeader, secret) == authHeader # Str(S_Bearer \o ToStr(secret))

UnauthorizedResponse == Response(401, Undefined, S_Unauthorized)

\* A variant that validates seatId only.
MissingParametersMut(seatId, holdToken) == ~Truthy(seatId)

\* !seatId || !holdToken
MissingParameters(seatId, holdToken) == ~Truthy(seatId) \/ ~Truthy(holdToken)

\* A variant that takes every status below 500 for a success.
OkMut(outcome) == outcome.status < 500

\* response.ok
Ok(outcome) == outcome.status \in 200..299

Error(message) == [name |-> "Error", message |-> message]

TypeError(message) == [name |-> "TypeError", message |-> message]

SyntaxError == [name |-> "SyntaxError", message |-> S_JsonSyntaxError]

\* A variant that hands out the secret key in place of the event key.
HoldTokenResponseMut(holdToken, e) ==
  Response(200, corsHeaders,
           Stringify(Obj(<< <<S_holdToken, holdToken>>,
                            <<S_eventKey, e.SEATSIO_SECRET_KEY>> >>)))

HoldTokenResponse(holdToken, e) ==
  Response(200, corsHeaders,
           Stringify(Obj(<< <<S_holdToken, holdToken>>,
                            <<S_eventKey, e.SEATSIO_EVENT_KEY>> >>)))

BookedResponse(seatId) ==
  Response(200, corsHeaders,
           Stringify(Obj(<< <<S_success, Bool(TRUE)>>,
                            <<S_message, Str(S_Seat \o ToStr(seatId) \o S_booked)>> >>)))

\* The catch block.
Catch(err) ==
  Response(500, corsHeaders, Stringify(Obj(<< <<S_error, Str(err.message)>> >>)))

\* How a run of the handler's code up to its next suspension ends: it
\* returns a response, throws, or awaits a fetch it has just issued.
Return(r) ==
  [kind |-> "return", response |-> <<r>>, err |-> <<>>, request |-> <<>>,
   next |-> "done", seatId |-> Undefined]

Throw(err) ==
  [kind |-> "throw", response |-> <<>>, err |-> <<err>>, request |-> <<>>,
   next |-> "done", seatId |-> Undefined]

Await(next, request, seatId) ==
  [kind |-> "await", response |-> <<>>, err |-> <<>>, request |-> <<request>>,
   next |-> next, seatId |-> seatId]

\* The bookSeat branch up to the fetch.
BookSeat(ev, e, body) ==
  IF Nullish(ev.headers) THEN Throw(TypeError(S_ReadAuthOfUndefined))
  ELSE LET authHeader == GetProp(ev.headers, S_authorization) IN
    IF Unauthorized(authHeader, e.GHL_WEBHOOK_SECRET) THEN Return(UnauthorizedResponse)
    ELSE LET seatId == GetProp(body, S_seatId)
             holdToken == GetProp(body, S_holdToken)
         IN IF MissingParameters(seatId, holdToken) THEN Throw(Error(S_MissingParams))
            ELSE Await("awaitBook", BookRequest(e, seatId, holdToken), seatId)

\* The try block after JSON.parse, up to the first fetch; p is what
\* JSON.parse made of the body.
DispatchAction(ev, e, p) ==
  IF ~p.ok THEN Throw(SyntaxError)
  ELSE IF Nullish(p.val) THEN Throw(TypeError(S_ReadActionOfNull))
  ELSE LET action == GetProp(p.val, S_action) IN
    IF action = Str(S_createHoldToken)
    THEN Await("awaitHoldToken", HoldTokenRequest(e), Undefined)
    ELSE IF action = Str(S_bookSeat) THEN BookSeat(ev, e, p.val)
    ELSE Throw(Error(S_InvalidAction))

\* The try block from JSON.parse(event.body || '{}') up to the first fetch.
Dispatch(ev, e) ==
  DispatchAction(ev, e, JSONparse(ToStr(Or(ev.body, Str(S_emptyObject)))))

\* const { holdToken } = await response.json(), and the return; p is what
\* response.json() made of the upstream body.
ExtractHoldToken(p, e) ==
  IF ~p.ok THEN Throw(SyntaxError)
  ELSE IF Nullish(p.val) THEN Throw(TypeError(S_DestructureNull))
  ELSE Return(HoldTokenResponse(GetProp(p.val, S_holdToken), e))

\* createHoldToken once its fetch has settled.
AfterHoldToken(outcome, e) ==
  IF outcome.settled = "rejected" THEN Throw(TypeError(S_FetchFailed))
  ELSE IF ~Ok(outcome) THEN Throw(Error(S_HoldApiError \o outcome.text))
  ELSE ExtractHoldToken(JSONparse(outcome.text), e)

\* bookSeat once its fetch has settled.
AfterBook(outcome, seatId) ==
  IF outcome.settled = "rejected" THEN Throw(TypeError(S_FetchFailed))
  ELSE IF ~Ok(outcome) THEN Throw(Error(S_BookApiError \o outcome.text))
  ELSE Return(BookedResponse(seatId))

\* A variant whose try block starts after JSON.parse, so that a SyntaxError
\* leaves the handler.
TryCatchMut(step) ==
  IF step.kind = "throw" /\ step.err[1].name # "SyntaxError"
  THEN Return(Catch(step.err[1]))
  ELSE step

\* try { ... } catch (err) { ... }: a throw becomes the 500 response.
TryCatch(step) == IF step.kind = "throw" THEN Return(Catch(step.err[1])) ELSE step

\* ------------------------------------------------------------------------
\* State

VARIABLES
  env,          \* process.env
  pc,           \* "idle", "awaitHoldToken", "awaitBook" or "done"
  event,        \* the event of the invocation in progress
  parsed,       \* JSON.parse has been called on the event's body
  calls,        \* the fetch requests issued by this invocation, in order
  upstream,     \* how the awaited fetch settled, once it has
  seatId,       \* the handler's local seatId, kept across the await
  caught,       \* the err bound by the catch block, if it ran
  result,       \* the promise the handler returned
  invocations,  \* invocations started so far
  totalCalls    \* fetch requests issued by all invocations so far

vars ==
  <<env, pc, event, parsed, calls, upstream, seatId, caught, result,
    invocations, totalCalls>>

NoEvent == [httpMethod |-> Undefined, headers |-> Undefined, body |-> Undefined]

Pending == [settled |-> "pending", response |-> <<>>, err |-> <<>>]

Fulfilled(r) == [settled |-> "fulfilled", response |-> <<r>>, err |-> <<>>]

Rejected(err) == [settled |-> "rejected", response |-> <<>>, err |-> <<err>>]

\* The promise of the async function after a run that did not suspend.
Settle(step) ==
  CASE step.kind = "return" -> Fulfilled(step.response[1])
    [] step.kind = "throw" -> Rejected(step.err[1])
    [] OTHER -> Pending

Init ==
  /\ env \in Envs
  /\ pc = "idle"
  /\ event = NoEvent
  /\ parsed = FALSE
  /\ calls = <<>>
  /\ upstream = <<>>
  /\ seatId = Undefined
  /\ caught = <<>>
  /\ result = Pending
  /\ invocations = 0
  /\ totalCalls = 0

\* The platform calls exports.handler(event); the code runs to its first
\* await or to its return.
Invoke(ev) ==
  /\ pc = "idle"
  /\ invocations < MaxInvocations
  /\ invocations' = invocations + 1
  /\ event' = ev
  /\ upstream' = <<>>
  /\ UNCHANGED env
  /\ IF IsPreflight(ev)
     THEN /\ result' = Fulfilled(PreflightResponse)
          /\ pc' = "done"
          /\ UNCHANGED <<parsed, calls, seatId, caught, totalCalls>>
     ELSE /\ parsed' = TRUE
          /\ \E body \in {Dispatch(ev, env)} :
               /\ caught' = body.err
               /\ \E step \in {TryCatch(body)} :
                    /\ calls' = step.request
                    /\ totalCalls' = totalCalls + Len(step.request)
                    /\ seatId' = step.seatId
                    /\ pc' = step.next
                    /\ result' = Settle(step)

\* The fetch of createHoldToken settles and the handler runs to its end.
HoldTokenSettles(outcome) ==
  /\ pc = "awaitHoldToken"
  /\ upstream' = <<outcome>>
  /\ pc' = "done"
  /\ \E body \in {AfterHoldToken(outcome, env)} :
       /\ caught' = body.err
       /\ result' = Settle(TryCatch(body))
  /\ UNCHANGED <<env, event, parsed, calls, seatId, invocations, totalCalls>>

\* The fetch of bookSeat settles and the handler runs to its end.
BookSettles(outcome) ==
  /\ pc = "awaitBook"
  /\ upstream' = <<outcome>>
  /\ pc' = "done"
  /\ \E body \in {AfterBook(outcome, seatId)} :
       /\ caught' = body.err
       /\ result' = Settle(TryCatch(body))
  /\ UNCHANGED <<env, event, parsed, calls, seatId, invocations, totalCalls>>

\* The invocation is over; nothing of it is kept for the next one.
Finish ==
  /\ pc = "done"
  /\ pc' = "idle"
  /\ event' = NoEvent
  /\ parsed' = FALSE
  /\ calls' = <<>>
  /\ upstream' = <<>>
  /\ seatId' = Undefined
  /\ caught' = <<>>
  /\ result' = Pending
  /\ UNCHANGED <<env, invocations, totalCalls>>

Next ==
  \/ \E ev \in Events : Invoke(ev)
  \/ \E outcome \in Outcomes : HoldTokenSettles(outcome)
  \/ \E outcome \in Outcomes : BookSettles(outcome)
  \/ Finish

Spec == Init /\ [][Next]_vars

\* ------------------------------------------------------------------------
\* The request and the response of the invocation in progress, as the
\* properties below read them

Done == pc = "done"

NonPreflight == pc # "idle" /\ event.httpMethod # Str(S_OPTIONS)

\* The body as JSON.parse sees it: an absent, null or empty body is '{}'.
BodyText ==
  IF event.body \in {Undefined, Null, Str(<<>>)} THEN S_emptyObject ELSE event.body.str

ReqBody == JSONparse(BodyText)

MalformedBody == ~ReqBody.ok

NullBody == ReqBody.ok /\ ReqBody.val = Null

\* The body parses to a value that has an action to read.
ReadableBody == ReqBody.ok /\ ReqBody.val # Null

ReqAction == GetProp(ReqBody.val, S_action)

CreateHoldTokenRequest ==
  NonPreflight /\ ReadableBody /\ ReqAction = Str(S_createHoldToken)

BookSeatRequest == NonPreflight /\ ReadableBody /\ ReqAction = Str(S_bookSeat)

ReqSeatId == GetProp(ReqBody.val, S_seatId)

ReqHoldToken == GetProp(ReqBody.val, S_holdToken)

\* A field is present when the body gives it a non-empty value.
Present(v) == v.type \notin {"undefined", "null"} /\ v # Str(<<>>)

HasHeaders == event.headers.type = "object"

\* The authorization header of the request, undefined when it has none.
ReqAuth == GetProp(event.headers, S_authorization)

SecretConfigured == env.GHL_WEBHOOK_SECRET.type = "string"

\* The header is exactly "Bearer " followed by the configured secret.
Authorized ==
  /\ SecretConfigured
  /\ HasHeaders
  /\ ReqAuth = Str(S_Bearer \o env.GHL_WEBHOOK_SECRET.str)

Answered == Done /\ result.settled = "fulfilled"

Resp == result.response[1]

RespJson == JSONparse(Resp.body)

\* A 500 response with the CORS headers and a body { error: <string> }.
IsErrorResponse ==
  /\ Answered
  /\ Resp.statusCode = 500
  /\ Resp.headers = corsHeaders
  /\ RespJson.ok
  /\ RespJson.val.type = "object"
  /\ Keys(RespJson.val) = {S_error}
  /\ GetProp(RespJson.val, S_error).type = "string"

ErrorMessage == GetProp(RespJson.val, S_error).str

Contains(s, t) == \E i \in 1..(Len(s) - Len(t) + 1) : SubSeq(s, i, i + Len(t) - 1) = t

UpstreamSettled == upstream # <<>>

UpstreamRejected == UpstreamSettled /\ upstream[1].settled = "rejected"

UpstreamSuccess ==
  UpstreamSettled /\ upstream[1].settled = "fulfilled" /\ upstream[1].status \in 200..299

UpstreamFailure ==
  UpstreamSettled /\ upstream[1].settled = "fulfilled" /\ upstream[1].status \notin 200..299

UpstreamJson == JSONparse(upstream[1].text)

\* ------------------------------------------------------------------------
\* Properties

\* C1: every invocation ends with exactly one response and no fault
\* escapes: the promise is pending until the handler is done and fulfilled
\* then, and for a non-OPTIONS request every failure raised in the dispatch
\* logic (a malformed body, a body that parses to null, a bookSeat event
\* without a headers object, a rejected fetch, an upstream success whose
\* body is not JSON, and whatever else the catch block receives) becomes a
\* 500 response with the CORS headers and the body { error: message }.
C1_EveryFailureBecomes500 ==
  /\ ~Done => result = Pending
  /\ Done => result.settled = "fulfilled"
  /\ Done /\ NonPreflight =>
       /\ MalformedBody => IsErrorResponse
       /\ NullBody => IsErrorResponse
       /\ BookSeatRequest /\ ~HasHeaders => IsErrorResponse
       /\ UpstreamRejected => IsErrorResponse
       /\ CreateHoldTokenRequest /\ UpstreamSuccess /\ ~UpstreamJson.ok => IsErrorResponse
       /\ caught # <<>> => IsErrorResponse /\ ErrorMessage = caught[1].message

C1_Witness ==
  /\ Done /\ NonPreflight /\ MalformedBody
  /\ caught # <<>> /\ caught[1].name = "SyntaxError"
  /\ Resp.statusCode = 500

\* C2: every response on every path (204, 200, 401, 500) carries the three
\* cross-origin headers.
C2_EveryResponseHasCors == Answered => Resp.headers = corsHeaders

\* C3: a bookSeat request whose Authorization header is absent or is not
\* exactly "Bearer " followed by the configured webhook secret is answered
\* 401 without any outbound call, also when seatId or holdToken is missing;
\* in whichever invocation of a run it arrives, that invocation adds nothing
\* to the count of outbound calls.
C3_UnauthorizedNeverReachesUpstream ==
  BookSeatRequest /\ SecretConfigured /\ HasHeaders /\ ~Authorized =>
    /\ Answered
    /\ Resp.statusCode = 401
    /\ calls = <<>>
    /\ totalCalls < invocations

C3_Witness ==
  /\ BookSeatRequest /\ SecretConfigured /\ HasHeaders
  /\ ReqAuth = Str(<<"b", "e", "a", "r", "e", "r", " ">> \o env.GHL_WEBHOOK_SECRET.str)
  /\ ~Present(ReqSeatId)
  /\ Answered /\ Resp.statusCode = 401
  /\ invocations = 2 /\ totalCalls = 0

\* C4: a bookSeat request with a matching Authorization header and both
\* seatId and holdToken present issues exactly one outbound call, a POST to
\* the booking endpoint of the configured event whose body is
\* { objects: [seatId], holdToken } with the request's own values; when the
\* call succeeds the response is 200 with the body
\* { success: true, message: "Seat <seatId> booked successfully." }.
C4_BookSeatBooks ==
  BookSeatRequest /\ Authorized /\ Present(ReqSeatId) /\ Present(ReqHoldToken) =>
    /\ Len(calls) = 1
    /\ calls[1].method = S_POST
    /\ env.SEATSIO_EVENT_KEY.type = "string" =>
         calls[1].url = S_EventsUrl \o env.SEATSIO_EVENT_KEY.str \o S_ActionsBook
    /\ calls[1].body.type = "string"
    /\ JSONparse(calls[1].body.str) =
         [ok |-> TRUE,
          val |-> Obj(<< <<S_objects, Arr(<<ReqSeatId>>)>>, <<S_holdToken, ReqHoldToken>> >>)]
    /\ UpstreamSuccess =>
         /\ Answered
         /\ Resp.statusCode = 200
         /\ RespJson =
              [ok |-> TRUE,
               val |-> Obj(<< <<S_success, Bool(TRUE)>>,
                              <<S_message, Str(S_Seat \o ToStr(ReqSeatId) \o S_booked)>> >>)]

C4_Witness ==
  /\ BookSeatRequest /\ Authorized
  /\ ReqSeatId = Str(<<"A", "\"", "1">>) /\ ReqHoldToken = Str(<<"h", "t">>)
  /\ env.SEATSIO_EVENT_KEY.type = "string"
  /\ UpstreamSuccess /\ Answered /\ Resp.statusCode = 200
  /\ Len(calls) = 1

\* C5: a createHoldToken request issues exactly one outbound call, a POST to
\* the hold-token endpoint; when the call succeeds (the upstream answers a
\* success status with a JSON object that holds the issued token) and the
\* event identifier is configured, the response is 200 with the CORS headers
\* and a body of exactly two fields, holdToken = the issued token and
\* eventKey = the configured event identifier.
C5_CreateHoldTokenIssues ==
  CreateHoldTokenRequest =>
    /\ Len(calls) = 1
    /\ calls[1].url = S_HoldTokensUrl
    /\ calls[1].method = S_POST
    /\ ( /\ UpstreamSuccess
         /\ UpstreamJson.ok
         /\ UpstreamJson.val.type = "object"
         /\ GetProp(UpstreamJson.val, S_holdToken).type = "string"
         /\ env.SEATSIO_EVENT_KEY.type = "string" ) =>
         /\ Answered
         /\ Resp.statusCode = 200
         /\ Resp.headers = corsHeaders
         /\ RespJson.ok
         /\ RespJson.val.type = "object"
         /\ Len(RespJson.val.items) = 2
         /\ Keys(RespJson.val) = {S_holdToken, S_eventKey}
         /\ GetProp(RespJson.val, S_holdToken) = GetProp(UpstreamJson.val, S_holdToken)
         /\ GetProp(RespJson.val, S_eventKey) = env.SEATSIO_EVENT_KEY

C5_Witness ==
  /\ CreateHoldTokenRequest /\ UpstreamSuccess
  /\ UpstreamJson.ok /\ Len(UpstreamJson.val.items) = 2
  /\ env.SEATSIO_EVENT_KEY.type = "string"
  /\ Answered /\ Resp.statusCode = 200
  /\ GetProp(RespJson.val, S_holdToken) = Str(<<"T", "\"", "9">>)

\* C6: when the upstream answers either outbound call with a non-success
\* status, the response is 500 with an error message that contains the
\* upstream response body, never a 200, and the invocation has issued that
\* one call only.
C6_UpstreamFailureIs500 ==
  UpstreamFailure =>
    /\ IsErrorResponse
    /\ Contains(ErrorMessage, upstream[1].text)
    /\ Len(calls) = 1

C6_Witness ==
  /\ BookSeatRequest /\ UpstreamFailure
  /\ upstream[1].status = 400
  /\ Contains(upstream[1].text, <<"\"">>)
  /\ Answered /\ Resp.statusCode = 500

\* C7: a request whose method is OPTIONS is answered 204 with an empty body
\* and the CORS headers whatever its body and headers; its body is never
\* parsed and no outbound call is made.
C7_PreflightBypassesAll ==
  event.httpMethod = Str(S_OPTIONS) =>
    /\ Answered
    /\ Resp = Response(204, corsHeaders, <<>>)
    /\ ~parsed
    /\ calls = <<>>
    /\ ~UpstreamSettled

C7_Witness ==
  /\ event.httpMethod = Str(S_OPTIONS)
  /\ event.body.type = "string" /\ ~JSONparse(event.body.str).ok
  /\ HasHeaders /\ ReqAuth.type = "string"
  /\ Answered /\ Resp.statusCode = 204

\* C8: a non-OPTIONS request whose body (an empty or absent body counting
\* as {}) parses to a value whose action is missing or is neither
\* createHoldToken nor bookSeat is answered 500 with the message
\* "Invalid action specified in request body." and no outbound call.
C8_InvalidActionIs500 ==
  ( /\ NonPreflight
    /\ ReadableBody
    /\ ReqAction \notin {Str(S_createHoldToken), Str(S_bookSeat)} ) =>
    /\ IsErrorResponse
    /\ ErrorMessage = S_InvalidAction
    /\ calls = <<>>

C8_Witness ==
  /\ NonPreflight
  /\ event.body = Undefined
  /\ Answered /\ Resp.statusCode = 500
  /\ ErrorMessage = S_InvalidAction

\* C9: a bookSeat request with a matching Authorization header in which
\* seatId or holdToken is missing is answered 500 with the CORS headers and
\* the message naming the missing parameters, and no outbound call is made.
C9_MissingFieldIs500 ==
  BookSeatRequest /\ Authorized /\ (~Present(ReqSeatId) \/ ~Present(ReqHoldToken)) =>
    /\ IsErrorResponse
    /\ ErrorMessage = S_MissingParams
    /\ calls = <<>>

C9_Witness ==
  /\ BookSeatRequest /\ Authorized
  /\ Present(ReqSeatId) /\ ReqHoldToken = Undefined
  /\ Answered /\ Resp.statusCode = 500

\* C10: when the webhook shared secret is absent from the configuration,
\* every bookSeat request, whatever Authorization header it carries, is
\* answered 401 and no upstream booking call is made.
C10_NoSecretRejectsAll ==
  BookSeatRequest /\ ~SecretConfigured /\ HasHeaders =>
    /\ Answered
    /\ Resp.statusCode = 401
    /\ calls = <<>>

====
